---------------------------- MODULE Spec2Model ----------------------------
(***************************************************************************)
(* Model of src/core/hle/service/nwm/uds_data.cpp: the UDS data-frame      *)
(* layer (header assembly, CCMP key derivation, CCM encryption and         *)
(* decryption of data-frame payloads).                                     *)
(*                                                                         *)
(* Bytes are naturals in 0..255 and buffers are sequences of bytes.  The   *)
(* cryptographic library (Crypto++) is outside the repository; its CCM     *)
(* mode is modelled after RFC 3610 (formatting of B_0, of the AAD blocks   *)
(* and of the counter blocks, CBC-MAC, counter-mode key stream, the        *)
(* library's length limits and exceptions) over a small keyed block        *)
(* function that stands for AES, and MD5 by a small digest over the same   *)
(* block function.                                                         *)
(***************************************************************************)
EXTENDS Integers, Sequences, FiniteSets, TLC

VARIABLES
    pc,          \* position of the frame path: "start", "encrypted", "received", "done"
    tx,          \* arguments of the EncryptDataFrame call
    enc,         \* what EncryptDataFrame built and returned
    rx,          \* arguments of the DecryptDataFrame call, and how they came about
    dec,         \* what DecryptDataFrame built and returned
    hpc,         \* position of the payload assembler: "start", "built"
    hin,         \* arguments of the GenerateDataPayload call
    hout,        \* the secure-data header fields and the returned buffer
    kpc,         \* position of the key derivation: "start", "derived", "both"
    kenv,        \* passphrase, NetworkInfo and key store as the session holds them
    kcall1,      \* inputs, key-slot read and result of the first derivation
    kcall2       \* inputs, key-slot read and result of the second derivation

vars == <<pc, tx, enc, rx, dec, hpc, hin, hout, kpc, kenv, kcall1, kcall2>>
cryptoVars == <<pc, tx, enc, rx, dec>>
headerVars == <<hpc, hin, hout>>
keyVars == <<kpc, kenv, kcall1, kcall2>>

-----------------------------------------------------------------------------
(* Bounds of the model *)

\* longest in-range payload the model encrypts
MaxLen == 2
\* how many lengths beyond a 16-bit/CCM limit the model tries
MaxOver == 1

-----------------------------------------------------------------------------
(* Bytes, integers of fixed width *)

RECURSIVE BXor(_, _)
BXor(a, b) ==
    IF a = 0 THEN b
    ELSE IF b = 0 THEN a
    ELSE ((a + b) % 2) + 2 * BXor(a \div 2, b \div 2)

RECURSIVE XorFrom(_, _, _, _)
XorFrom(a, b, i, acc) ==
    IF i > Len(a) THEN acc ELSE XorFrom(a, b, i + 1, Append(acc, BXor(a[i], b[i])))

\* bytewise exclusive or of a with the first Len(a) bytes of b
XorSeq(a, b) == XorFrom(a, b, 1, <<>>)

Zeros(n) == [i \in 1..n |-> 0]

Take(s, n) == SubSeq(s, 1, n)

\* v written big-endian on w bytes (w <= 3 in every use)
BigEndian(v, w) == [i \in 1..w |-> (v \div (256 ^ (w - i))) % 256]

\* v written little-endian on w bytes
LittleEndian(v, w) == [i \in 1..w |-> (v \div (256 ^ (i - 1))) % 256]

\* conversion to u16
ToU16(v) == v % 65536

(* size_t is 64 bits wide; a value is kept as four 16-bit limbs, most       *)
(* significant first, since 2^64 is beyond the integers TLC computes with.   *)
SizeT(n) == <<0, 0, n \div 65536, n % 65536>>

\* a - b in size_t arithmetic, for a, b below 2^31: wraps around below zero
SizeSub(a, b) ==
    IF a >= b THEN SizeT(a - b)
    ELSE <<65535, 65535, 65535 - ((b - a - 1) \div 65536), 65535 - ((b - a - 1) % 65536)>>

\* the size_t value s is greater than the number n (n below 2^31)
SizeGreater(s, n) ==
    \/ s[1] # 0
    \/ s[2] # 0
    \/ s[3] > n \div 65536
    \/ s[3] = n \div 65536 /\ s[4] > n % 65536

\* the number a size_t value holds, when it is below 2^31
SizeToNat(s) == s[3] * 65536 + s[4]

-----------------------------------------------------------------------------
(* The cryptographic library: a block function standing for AES, a digest   *)
(* standing for MD5, counter mode, and CCM as RFC 3610 defines it.          *)

\* CryptoPP::AES::BLOCKSIZE
BLOCKSIZE == 16
\* CryptoPP::MD5::DIGESTSIZE
DIGESTSIZE == 16
\* the tag length of CryptoPP::CCM<CryptoPP::AES, 8>
TagSize == 8

SBox(x) == LET y == (x * 167 + 91) % 256 IN (y % 16) * 16 + (y \div 16)

RECURSIVE MixChain(_, _, _, _, _)
MixChain(X, K, i, prev, acc) ==
    IF i > Len(X) THEN acc
    ELSE LET y == SBox((X[i] + K[i] + prev) % 256)
         IN  MixChain(X, K, i + 1, y, Append(acc, y))

\* the keyed block function: two chained substitution passes over the block
BlockEncrypt(key, X) ==
    LET p1 == MixChain(X, key, 1, 0, <<>>)
    IN  MixChain(p1, key, 1, p1[Len(p1)], <<>>)

Pad(s, n) == s \o Zeros((n - (Len(s) % n)) % n)

Block(data, i) == SubSeq(data, BLOCKSIZE * (i - 1) + 1, BLOCKSIZE * i)

\* the digest: length-padded message absorbed block by block
RECURSIVE Absorb(_, _, _)
Absorb(data, i, h) ==
    IF i > Len(data) \div BLOCKSIZE THEN h
    ELSE Absorb(data, i + 1, XorSeq(BlockEncrypt(Block(data, i), h), h))

MD5(message) ==
    Absorb(Pad(message \o <<128>>, BLOCKSIZE) \o Pad(BigEndian(Len(message), 2), BLOCKSIZE),
           1, [i \in 1..DIGESTSIZE |-> (17 * i) % 256])

\* CTR_Mode<AES>::Encryption over one block of data: data xor E(key, counter)
CTR_ProcessData(key, counter, data) == XorSeq(data, BlockEncrypt(key, counter))

\* CCM's length-field width for a nonce: L = 15 - nonce length
CCM_L(nonce) == BLOCKSIZE - 1 - Len(nonce)

\* CCM::MaxMessageLength(): 2^(8L) - 1
CCM_MaxMessageLength(nonce) == (256 ^ CCM_L(nonce)) - 1

CCM_B0(nonce, headerLength, messageLength) ==
    <<64 * (IF headerLength > 0 THEN 1 ELSE 0) + 8 * ((TagSize - 2) \div 2) + (CCM_L(nonce) - 1)>>
        \o nonce \o BigEndian(messageLength, CCM_L(nonce))

CCM_CounterBlock(nonce, i) == <<CCM_L(nonce) - 1>> \o nonce \o BigEndian(i, CCM_L(nonce))

RECURSIVE CCM_CBCMAC(_, _, _, _)
CCM_CBCMAC(key, data, i, X) ==
    IF i > Len(data) \div BLOCKSIZE THEN X
    ELSE CCM_CBCMAC(key, data, i + 1, BlockEncrypt(key, XorSeq(X, Block(data, i))))

RECURSIVE CCM_KeyStream(_, _, _, _, _)
CCM_KeyStream(key, nonce, i, n, acc) ==
    IF n <= 0 THEN acc
    ELSE CCM_KeyStream(key, nonce, i + 1, n - BLOCKSIZE,
             acc \o Take(BlockEncrypt(key, CCM_CounterBlock(nonce, i)),
                         IF n < BLOCKSIZE THEN n ELSE BLOCKSIZE))

\* counter-mode encryption and decryption of the message part
CCM_Crypt(key, nonce, data) == XorSeq(data, CCM_KeyStream(key, nonce, 1, Len(data), <<>>))

\* the authentication tag over (nonce, header, message), encrypted with S_0
CCM_Tag(key, nonce, header, message) ==
    LET aadBlocks == IF Len(header) = 0 THEN <<>>
                     ELSE Pad(BigEndian(Len(header), 2) \o header, BLOCKSIZE)
        data == CCM_B0(nonce, Len(header), Len(message)) \o aadBlocks \o Pad(message, BLOCKSIZE)
        T    == CCM_CBCMAC(key, data, 1, Zeros(BLOCKSIZE))
    IN  XorSeq(Take(T, TagSize), BlockEncrypt(key, CCM_CounterBlock(nonce, 0)))

(* SetKeyWithIV and SpecifyDataLengths: the exception they raise, or "none". *)
(* messageLength is a size_t value.                                          *)
CCM_SpecifyDataLengths(key, nonce, headerLength, messageLength) ==
    IF Len(key) # BLOCKSIZE \/ Len(nonce) < 7 \/ Len(nonce) > 13 THEN "InvalidArgument"
    ELSE IF SizeGreater(messageLength, CCM_MaxMessageLength(nonce)) THEN "InvalidArgument"
    ELSE "none"

(* AuthenticatedEncryptionFilter: header on the AAD channel, message on the *)
(* default channel; retrieves ciphertext followed by the tag.                *)
CCM_AuthenticatedEncryption(key, nonce, headerLength, messageLength, header, message) ==
    IF Len(header) # headerLength \/ Len(message) # messageLength
    THEN [exception |-> "InvalidArgument", output |-> <<>>]
    ELSE [exception |-> "none",
          output |-> CCM_Crypt(key, nonce, message) \o CCM_Tag(key, nonce, header, message)]

(* AuthenticatedDecryptionFilter with MAC_AT_END | THROW_EXCEPTION: the last *)
(* TagSize bytes put on the default channel are the tag.  output is what the *)
(* filter decrypted; exception says whether verification let it through.     *)
CCM_AuthenticatedDecryption(key, nonce, headerLength, messageLength, header, stream) ==
    IF Len(stream) < TagSize
    THEN [exception |-> "InvalidArgument", output |-> <<>>]
    ELSE LET ciphertext == Take(stream, Len(stream) - TagSize)
             mac        == SubSeq(stream, Len(stream) - TagSize + 1, Len(stream))
             plain      == CCM_Crypt(key, nonce, ciphertext)
         IN  IF Len(header) # headerLength \/ Len(ciphertext) # messageLength
             THEN [exception |-> "InvalidArgument", output |-> plain]
             ELSE IF CCM_Tag(key, nonce, header, plain) # mac
             THEN [exception |-> "HashVerificationFailed", output |-> plain]
             ELSE [exception |-> "none", output |-> plain]

\* the exception types derived from CryptoPP::Exception
CryptoPPException == {"InvalidArgument", "HashVerificationFailed"}

-----------------------------------------------------------------------------
(* Header codec and payload assembler.  LLCHeader, SecureDataHeader and     *)
(* EtherType are declared in uds_data.h; their layout here is the one the   *)
(* interface description gives: a 2-byte big-endian protocol id, and the   *)
(* secure-data fields in order, 16-bit fields little-endian.                *)

\* EtherType::SecureData (0x876D)
EtherType_SecureData == 34669

\* the bytes of an LLCHeader object
SerializeLLCHeader(header) == BigEndian(header.protocol, 2)

\* the bytes of a SecureDataHeader object
SerializeSecureDataHeader(header) ==
    LittleEndian(header.protocol_size, 2) \o LittleEndian(header.securedata_size, 2)
        \o <<header.is_management, header.data_channel>>
        \o LittleEndian(header.sequence_number, 2)
        \o LittleEndian(header.dest_node_id, 2) \o LittleEndian(header.src_node_id, 2)

\* SecureDataHeader header{}
ZeroSecureDataHeader ==
    [protocol_size |-> 0, securedata_size |-> 0, is_management |-> 0, data_channel |-> 0,
     sequence_number |-> 0, dest_node_id |-> 0, src_node_id |-> 0]

\* sizeof(SecureDataHeader)
SizeofSecureDataHeader == Len(SerializeSecureDataHeader(ZeroSecureDataHeader))

\* sizeof(LLCHeader)
SizeofLLCHeader == Len(SerializeLLCHeader([protocol |-> 0]))

GenerateLLCHeader(protocol) ==
    LET header == [protocol |-> ToU16(protocol)]
    IN  SerializeLLCHeader(header)

\* a mutant of SecureDataHeaderFields: the header's own size left out of protocol_size
SecureDataHeaderFields_PayloadOnly(data_size, channel, dest_node_id, src_node_id, sequence_number) ==
    [ZeroSecureDataHeader EXCEPT
        !.protocol_size   = ToU16(data_size),
        !.securedata_size = ToU16(data_size + SizeofSecureDataHeader - 4),
        !.data_channel    = channel,
        !.sequence_number = sequence_number,
        !.dest_node_id    = dest_node_id,
        !.src_node_id     = src_node_id]

\* the header object GenerateSecureDataHeader fills in; data_size is a u16, the
\* sums are computed in size_t and stored into 16-bit fields
SecureDataHeaderFields(data_size, channel, dest_node_id, src_node_id, sequence_number) ==
    [ZeroSecureDataHeader EXCEPT
        !.protocol_size   = ToU16(data_size + SizeofSecureDataHeader),
        !.securedata_size = ToU16(data_size + SizeofSecureDataHeader - 4),
        !.is_management   = 0,
        !.data_channel    = channel,
        !.sequence_number = sequence_number,
        !.dest_node_id    = dest_node_id,
        !.src_node_id     = src_node_id]

GenerateSecureDataHeader(data_size, channel, dest_node_id, src_node_id, sequence_number) ==
    SerializeSecureDataHeader(
        SecureDataHeaderFields(data_size, channel, dest_node_id, src_node_id, sequence_number))

\* a mutant of GenerateDataPayload: the secure-data header inserted before the LLC header
GenerateDataPayload_HeadersSwapped(data, channel, dest_node, src_node, sequence_number) ==
    GenerateSecureDataHeader(ToU16(Len(data)), channel, dest_node, src_node, sequence_number)
        \o GenerateLLCHeader(EtherType_SecureData) \o data

GenerateDataPayload(data, channel, dest_node, src_node, sequence_number) ==
    LET buffer == GenerateLLCHeader(EtherType_SecureData)
        \* data.size() is converted to the u16 parameter data_size
        securedata_header == GenerateSecureDataHeader(ToU16(Len(data)), channel, dest_node,
                                                      src_node, sequence_number)
    IN  buffer \o securedata_header \o data

-----------------------------------------------------------------------------
(* Key derivation.  NetworkInfo and DataFrameCryptoCTR are declared in      *)
(* nwm_uds.h and uds_data.h; DataFrameCryptoCTR is laid out as the          *)
(* interface description gives it: host MAC, 8-byte wireless-community id,  *)
(* 1-byte network instance id, 4-byte network id.                           *)

\* AES Keyslot used to generate the UDS data frame CCMP key (0x2D)
UDSDataCryptoAESKeySlot == 45

\* v, below 2^24, written big-endian on w >= 3 bytes
WideBigEndian(v, w) == Zeros(w - 3) \o BigEndian(v, 3)

\* the bytes of a DataFrameCryptoCTR object
SerializeDataFrameCryptoCTR(data) ==
    data.host_mac \o WideBigEndian(data.wlan_comm_id, 8) \o <<data.id % 256>>
        \o WideBigEndian(data.network_id, 4)

\* HW::AES::GetNormalKey
GetNormalKey(keyslots, slot) == keyslots[slot]

\* a mutant of GetDataCryptoCTR: the channel of the network copied into the hashed data
GetDataCryptoCTR_WithChannel(network_info) ==
    MD5(SerializeDataFrameCryptoCTR(
            [host_mac     |-> network_info.host_mac_address,
             wlan_comm_id |-> network_info.wlan_comm_id,
             id           |-> network_info.id + network_info.channel,
             network_id   |-> network_info.network_id]))

GetDataCryptoCTR(network_info) ==
    LET data == [host_mac     |-> network_info.host_mac_address,
                 wlan_comm_id |-> network_info.wlan_comm_id,
                 id           |-> network_info.id,
                 network_id   |-> network_info.network_id]
    IN  MD5(SerializeDataFrameCryptoCTR(data))

\* the CCMP key, and the key slot the derivation read
GenerateDataCCMPKey(passphrase, network_info, keyslots) ==
    LET passphrase_hash == MD5(passphrase)
        counter         == GetDataCryptoCTR(network_info)
        key             == GetNormalKey(keyslots, UDSDataCryptoAESKeySlot)
    IN  [slot     |-> UDSDataCryptoAESKeySlot,
         ccmp_key |-> CTR_ProcessData(key, counter, passphrase_hash)]

-----------------------------------------------------------------------------
(* AAD and nonce *)

\* Default FC value of DataFrame | Protected | ToDS (0x0841)
DefaultFrameControl == 2113

\* a mutant of GenerateCCMPAAD: the destination field filled, the receiver field left zeroed
GenerateCCMPAAD_NoReceiver(sender, receiver) ==
    BigEndian(DefaultFrameControl, 2) \o Zeros(6) \o sender \o Zeros(6) \o BigEndian(0, 2)

\* a mutant of GenerateCCMPAAD: transmitter and receiver assigned the wrong way round
GenerateCCMPAAD_Swapped(sender, receiver) ==
    BigEndian(DefaultFrameControl, 2) \o sender \o receiver \o sender \o BigEndian(0, 2)

GenerateCCMPAAD(sender, receiver) ==
    LET aad_struct == [FC          |-> DefaultFrameControl,
                       SC          |-> 0,
                       transmitter |-> sender,
                       receiver    |-> receiver,
                       destination |-> receiver]
    IN  \* the struct's members in declaration order; u16_be members are big-endian
        BigEndian(aad_struct.FC, 2) \o aad_struct.receiver \o aad_struct.transmitter
            \o aad_struct.destination \o BigEndian(aad_struct.SC, 2)

\* a mutant of EncryptNonce: the sequence number written low byte first
EncryptNonce_LittleEndian(sender, sequence_number) ==
    <<0>> \o sender \o <<0, 0, 0, 0, sequence_number % 256, (sequence_number \div 256) % 256>>

\* the nonce EncryptDataFrame builds
EncryptNonce(sender, sequence_number) ==
    LET packet_number == <<0, 0, 0, 0, (sequence_number \div 256) % 256, sequence_number % 256>>
    IN  <<0>> \o sender \o packet_number

\* a mutant of DecryptNonce: the sequence number's high byte dropped
DecryptNonce_LowByteOnly(sender, sequence_number) ==
    <<0>> \o sender \o <<0, 0, 0, 0, 0, sequence_number % 256>>

\* the nonce DecryptDataFrame builds
DecryptNonce(sender, sequence_number) ==
    LET packet_number == <<0, 0, 0, 0, (sequence_number \div 256) % 256, sequence_number % 256>>
    IN  <<0>> \o sender \o packet_number

-----------------------------------------------------------------------------
(* EncryptDataFrame and DecryptDataFrame *)

\* a mutant of EncryptCatch: only a verification failure is caught
EncryptCatch_VerificationOnly(exception) == exception = "HashVerificationFailed"

\* catch (CryptoPP::Exception&) in EncryptDataFrame
EncryptCatch(exception) == exception \in CryptoPPException

\* catch (CryptoPP::Exception&) in DecryptDataFrame
DecryptCatch(exception) == exception \in CryptoPPException

\* a mutant of DecryptReturn: the decrypted bytes are returned whatever the filter reported
DecryptReturn_Unverified(outcome) == outcome.output

\* what DecryptDataFrame returns: the retrieved bytes, or {} after an exception
DecryptReturn(outcome) == IF outcome.exception = "none" THEN outcome.output ELSE <<>>

EncryptDataFrame(payload, ccmp_key, sender, receiver, sequence_number) ==
    LET aad     == GenerateCCMPAAD(sender, receiver)
        nonce   == EncryptNonce(sender, sequence_number)
        length  == SizeT(Len(payload))
        setup   == CCM_SpecifyDataLengths(ccmp_key, nonce, Len(aad), length)
        outcome == IF setup # "none" THEN [exception |-> setup, output |-> <<>>]
                   ELSE CCM_AuthenticatedEncryption(ccmp_key, nonce, Len(aad),
                                                    SizeToNat(length), aad, payload)
        thrown  == outcome.exception # "none"
    IN  [aad         |-> aad,
         nonce       |-> nonce,
         data_length |-> length,
         cipher      |-> IF thrown THEN <<>> ELSE outcome.output,
         failed      |-> thrown /\ EncryptCatch(outcome.exception),
         escaped     |-> thrown /\ ~EncryptCatch(outcome.exception)]

DecryptDataFrame(encrypted_payload, ccmp_key, sender, receiver, sequence_number) ==
    LET aad     == GenerateCCMPAAD(sender, receiver)
        nonce   == DecryptNonce(sender, sequence_number)
        size    == Len(encrypted_payload)
        length  == SizeSub(size, TagSize)
        setup   == CCM_SpecifyDataLengths(ccmp_key, nonce, Len(aad), length)
        outcome == IF setup # "none" THEN [exception |-> setup, output |-> <<>>]
                   ELSE CCM_AuthenticatedDecryption(ccmp_key, nonce, Len(aad), SizeToNat(length), aad,
                            SubSeq(encrypted_payload, 1, SizeToNat(length))
                                \o SubSeq(encrypted_payload, size - TagSize + 1, size))
        thrown  == outcome.exception # "none"
    IN  [aad         |-> aad,
         nonce       |-> nonce,
         data_length |-> length,
         pdata       |-> DecryptReturn(outcome),
         failed      |-> thrown /\ DecryptCatch(outcome.exception),
         escaped     |-> thrown /\ ~DecryptCatch(outcome.exception)]

-----------------------------------------------------------------------------
(* The frame path: a payload is encrypted, the frame reaches a receiver     *)
(* (unchanged, damaged, truncated, or decrypted with other parameters),     *)
(* and is decrypted.                                                        *)

MacAddresses == {<<0, 17, 34, 51, 68, 85>>, <<0, 17, 34, 51, 68, 86>>}

Keys == {[i \in 1..BLOCKSIZE |-> i], [i \in 1..BLOCKSIZE |-> 255 - (3 * i)]}

SequenceNumbers == {258, 65535}

PayloadBytes == {0, 165}

SeqsUpTo(S, n) == UNION {[1..k -> S] : k \in 0..n}

\* a payload that spills into a second cipher block
TwoBlockPayload == [i \in 1..(BLOCKSIZE + 1) |-> (7 * i) % 256]

\* payloads CCM accepts, and payloads longer than any CCM message with a 13-byte nonce
Payloads ==
    SeqsUpTo(PayloadBytes, MaxLen) \cup {TwoBlockPayload} \cup {Zeros(65535 + k) : k \in 1..MaxOver}

NoCall == [aad |-> <<>>, nonce |-> <<>>, data_length |-> SizeT(0), failed |-> FALSE, escaped |-> FALSE]
NoEncrypt == [cipher |-> <<>>] @@ NoCall
NoDecrypt == [pdata |-> <<>>] @@ NoCall
NoReceive == [encrypted_payload |-> <<>>, ccmp_key |-> <<>>, sender |-> <<>>, receiver |-> <<>>,
              sequence_number |-> 0, event |-> "none"]

CryptoInit ==
    /\ pc = "start"
    /\ tx \in [payload : Payloads, ccmp_key : Keys, sender : MacAddresses,
               receiver : MacAddresses, sequence_number : SequenceNumbers]
    /\ enc = NoEncrypt
    /\ rx = NoReceive
    /\ dec = NoDecrypt

Encrypt ==
    /\ pc = "start"
    /\ enc' = EncryptDataFrame(tx.payload, tx.ccmp_key, tx.sender, tx.receiver, tx.sequence_number)
    /\ pc' = "encrypted"
    /\ UNCHANGED <<tx, rx, dec>>

\* what the receiver holds when the frame arrives intact
Intact == [encrypted_payload |-> enc.cipher, ccmp_key |-> tx.ccmp_key, sender |-> tx.sender,
           receiver |-> tx.receiver, sequence_number |-> tx.sequence_number, event |-> "intact"]

FlipBit(v, b) == IF (v \div (2 ^ b)) % 2 = 1 THEN v - (2 ^ b) ELSE v + (2 ^ b)

Deliver ==
    /\ pc = "encrypted"
    /\ rx' = Intact
    /\ pc' = "received"
    /\ UNCHANGED <<tx, enc, dec>>

Tamper ==
    /\ pc = "encrypted"
    /\ \E i \in 1..Len(enc.cipher), b \in 0..7 :
         rx' = [Intact EXCEPT !.encrypted_payload = [enc.cipher EXCEPT ![i] = FlipBit(@, b)],
                              !.event = "bitflip"]
    /\ pc' = "received"
    /\ UNCHANGED <<tx, enc, dec>>

Truncate ==
    /\ pc = "encrypted"
    /\ \E n \in 0..(TagSize - 1) :
         rx' = [Intact EXCEPT !.encrypted_payload =
                                 [i \in 1..n |-> IF i <= Len(enc.cipher) THEN enc.cipher[i] ELSE 0],
                              !.event = "truncated"]
    /\ pc' = "received"
    /\ UNCHANGED <<tx, enc, dec>>

WrongAddress ==
    /\ pc = "encrypted"
    /\ \E s \in MacAddresses, r \in MacAddresses :
         /\ <<s, r>> # <<tx.sender, tx.receiver>>
         /\ rx' = [Intact EXCEPT !.sender = s, !.receiver = r, !.event = "address"]
    /\ pc' = "received"
    /\ UNCHANGED <<tx, enc, dec>>

WrongSequence ==
    /\ pc = "encrypted"
    /\ \E n \in SequenceNumbers \ {tx.sequence_number} :
         rx' = [Intact EXCEPT !.sequence_number = n, !.event = "sequence"]
    /\ pc' = "received"
    /\ UNCHANGED <<tx, enc, dec>>

WrongKey ==
    /\ pc = "encrypted"
    /\ \E k \in Keys \ {tx.ccmp_key} :
         rx' = [Intact EXCEPT !.ccmp_key = k, !.event = "key"]
    /\ pc' = "received"
    /\ UNCHANGED <<tx, enc, dec>>

Decrypt ==
    /\ pc = "received"
    /\ dec' = DecryptDataFrame(rx.encrypted_payload, rx.ccmp_key, rx.sender, rx.receiver,
                               rx.sequence_number)
    /\ pc' = "done"
    /\ UNCHANGED <<tx, enc, rx>>

KeyIdle == [passphrase |-> <<>>, network_info |-> <<>>, keyslots |-> <<>>]
NoDerive == [passphrase |-> <<>>, network_info |-> <<>>, master_key |-> <<>>, slot |-> 0, ccmp_key |-> <<>>]
HeaderIdle == [data |-> <<>>, channel |-> 0, dest_node |-> 0, src_node |-> 0, sequence_number |-> 0]
NoFrame == [header |-> <<>>, buffer |-> <<>>]

Init ==
    /\ CryptoInit
    /\ hpc = "idle" /\ hin = HeaderIdle /\ hout = NoFrame
    /\ kpc = "idle" /\ kenv = KeyIdle /\ kcall1 = NoDerive /\ kcall2 = NoDerive

Next ==
    \/ Encrypt /\ UNCHANGED <<headerVars, keyVars>>
    \/ Deliver /\ UNCHANGED <<headerVars, keyVars>>
    \/ Tamper /\ UNCHANGED <<headerVars, keyVars>>
    \/ Truncate /\ UNCHANGED <<headerVars, keyVars>>
    \/ WrongAddress /\ UNCHANGED <<headerVars, keyVars>>
    \/ WrongSequence /\ UNCHANGED <<headerVars, keyVars>>
    \/ WrongKey /\ UNCHANGED <<headerVars, keyVars>>
    \/ Decrypt /\ UNCHANGED <<headerVars, keyVars>>

Spec == Init /\ [][Next]_vars

-----------------------------------------------------------------------------
(* Properties of the frame path *)

\* C2 as stated: round trip, for every plaintext: decrypting the unchanged output of
\* EncryptDataFrame with the same key, addresses and sequence number returns the plaintext.
RoundTripAnyLength ==
    (pc = "done" /\ rx.event = "intact") => dec.pdata = tx.payload

\* C2 as amended: round trip for every plaintext of at most 65535 bytes, the longest
\* message CCM takes with a 13-byte nonce (the empty plaintext included).
RoundTrip ==
    (pc = "done" /\ rx.event = "intact" /\ Len(tx.payload) <= 65535) => dec.pdata = tx.payload

RoundTripWitness ==
    /\ pc = "done" /\ rx.event = "intact"
    /\ Len(tx.payload) = 2 /\ tx.sequence_number = 258
    /\ dec.pdata = tx.payload /\ ~dec.failed

\* C3: tamper detection, fail closed: with any single bit of EncryptDataFrame's output
\* flipped, DecryptDataFrame (same key, addresses, sequence number) takes its failure
\* path and returns the empty buffer: no decrypted byte is released.
TamperDetected ==
    (pc = "done" /\ rx.event = "bitflip") => (dec.pdata = <<>> /\ dec.failed /\ ~dec.escaped)

TamperWitness ==
    /\ pc = "done" /\ rx.event = "bitflip"
    /\ Len(tx.payload) = 2
    /\ rx.encrypted_payload[2] # enc.cipher[2]
    /\ dec.failed /\ dec.pdata = <<>>

\* C4: AAD sensitivity: decrypting EncryptDataFrame's output with the right key and
\* sequence number but another (sender, receiver) pair fails with the empty result.
WrongAddressRejected ==
    (pc = "done" /\ rx.event = "address") => (dec.pdata = <<>> /\ dec.failed)

WrongAddressWitness ==
    /\ pc = "done" /\ rx.event = "address"
    /\ rx.sender = tx.sender /\ rx.receiver # tx.receiver
    /\ Len(enc.cipher) = TagSize + 1
    /\ dec.failed /\ dec.pdata = <<>>

\* C5: an input shorter than 8 bytes makes DecryptDataFrame fail with the empty result,
\* and the ciphertext length it declares to the cipher is never an underflowed len - 8.
ShortInputNoUnderflow ==
    (pc = "done" /\ Len(rx.encrypted_payload) < TagSize) =>
        /\ dec.pdata = <<>>
        /\ dec.failed
        /\ ~SizeGreater(dec.data_length, Len(rx.encrypted_payload))

\* C5, the part the code keeps: the short input is refused (by the cipher's length check)
ShortInputFails ==
    (pc = "done" /\ Len(rx.encrypted_payload) < TagSize) => (dec.pdata = <<>> /\ dec.failed)

\* C7: EncryptDataFrame returns len(payload) + 8 bytes, or the empty buffer when the
\* library fails; in both functions failure shows as the empty result only, and no
\* exception leaves the function.
FailureIsEmptyResult ==
    /\ pc # "start" =>
         /\ \/ ~enc.failed /\ Len(enc.cipher) = Len(tx.payload) + 8
            \/ enc.failed /\ enc.cipher = <<>>
         /\ ~enc.escaped
    /\ pc = "done" => (~dec.escaped /\ (dec.failed => dec.pdata = <<>>))

FailureIsEmptyResultWitness ==
    /\ pc = "done"
    /\ enc.failed /\ enc.cipher = <<>> /\ Len(tx.payload) > 65535
    /\ dec.failed

IsNonce(n, mac, seq) ==
    /\ Len(n) = 13
    /\ n[1] = 0
    /\ \A i \in 1..6 : n[1 + i] = mac[i]
    /\ \A i \in 8..11 : n[i] = 0
    /\ n[12] = seq \div 256
    /\ n[13] = seq % 256

\* C9: the nonce of EncryptDataFrame and of DecryptDataFrame is 0, the sender MAC, four
\* zero bytes, then the sequence number's high and low byte; the two are equal exactly
\* when sender and sequence number are, whatever the receiver and the key.
NonceLayout ==
    /\ pc # "start" => IsNonce(enc.nonce, tx.sender, tx.sequence_number)
    /\ pc = "done" =>
         /\ IsNonce(dec.nonce, rx.sender, rx.sequence_number)
         /\ (enc.nonce = dec.nonce) <=>
                (tx.sender = rx.sender /\ tx.sequence_number = rx.sequence_number)

NonceLayoutWitness ==
    /\ pc = "done"
    /\ tx.sequence_number = 258
    /\ rx.event = "address" /\ rx.sender = tx.sender /\ rx.receiver # tx.receiver
    /\ enc.nonce = dec.nonce

IsAAD(a, sender, receiver) ==
    /\ Len(a) = 22
    /\ a = <<8, 65>> \o receiver \o sender \o receiver \o <<0, 0>>

\* C10: the AAD is 22 bytes: 0x08 0x41, receiver, sender (transmitter), receiver
\* (destination), two zero bytes; nothing but the two addresses enters it.
AADLayout ==
    /\ pc # "start" => IsAAD(enc.aad, tx.sender, tx.receiver)
    /\ pc = "done" => IsAAD(dec.aad, rx.sender, rx.receiver)

AADLayoutWitness ==
    /\ pc = "done"
    /\ tx.sender # tx.receiver
    /\ rx.event = "sequence"
    /\ dec.aad = enc.aad /\ Len(dec.aad) = 22

-----------------------------------------------------------------------------
(* The payload assembler: one call of GenerateDataPayload on given arguments *)

Channels == {1, 200}
NodeIds == {1, 513}

\* payload lengths around the two 16-bit limits: where protocol_size stops fitting its
\* field, and where data.size() stops fitting the data_size parameter
LongLengths ==
    {65535 - SizeofSecureDataHeader + k : k \in 0..MaxOver} \cup {65535 + k : k \in 0..MaxOver}

HeaderPayloads == SeqsUpTo(PayloadBytes, MaxLen) \cup {Zeros(n) : n \in LongLengths}

TxIdle == [payload |-> <<>>, ccmp_key |-> <<>>, sender |-> <<>>, receiver |-> <<>>,
           sequence_number |-> 0]

CryptoIdle ==
    pc = "idle" /\ tx = TxIdle /\ enc = NoEncrypt /\ rx = NoReceive /\ dec = NoDecrypt

HeaderInit ==
    /\ hpc = "start"
    /\ hin \in [data : HeaderPayloads, channel : Channels, dest_node : NodeIds,
                src_node : NodeIds, sequence_number : SequenceNumbers]
    /\ hout = NoFrame
    /\ CryptoIdle
    /\ kpc = "idle" /\ kenv = KeyIdle /\ kcall1 = NoDerive /\ kcall2 = NoDerive

BuildDataPayload ==
    /\ hpc = "start"
    /\ hout' = [header |-> SecureDataHeaderFields(ToU16(Len(hin.data)), hin.channel, hin.dest_node,
                                                  hin.src_node, hin.sequence_number),
                buffer |-> GenerateDataPayload(hin.data, hin.channel, hin.dest_node,
                                               hin.src_node, hin.sequence_number)]
    /\ hpc' = "built"
    /\ UNCHANGED hin

HeaderNext == BuildDataPayload /\ UNCHANGED <<cryptoVars, keyVars>>

SpecHeader == HeaderInit /\ [][HeaderNext]_vars

\* C1: GenerateDataPayload returns the link-encapsulation header with the SecureData
\* protocol id, then the secure-data header sized for the payload and carrying the given
\* channel, sequence number and node ids, then the payload unchanged; its length is the
\* two header sizes plus the payload length.
PayloadLayout ==
    hpc = "built" =>
        LET b   == hout.buffer
            llc == SizeofLLCHeader
            sd  == SizeofSecureDataHeader
        IN  /\ Len(b) = llc + sd + Len(hin.data)
            /\ SubSeq(b, 1, llc) = <<EtherType_SecureData \div 256, EtherType_SecureData % 256>>
            /\ SubSeq(b, llc + 1, llc + sd) = SerializeSecureDataHeader(hout.header)
            /\ hout.header.protocol_size = (Len(hin.data) + sd) % 65536
            /\ hout.header.is_management = 0
            /\ hout.header.data_channel = hin.channel
            /\ hout.header.sequence_number = hin.sequence_number
            /\ hout.header.dest_node_id = hin.dest_node
            /\ hout.header.src_node_id = hin.src_node
            /\ SubSeq(b, llc + sd + 1, Len(b)) = hin.data

PayloadLayoutWitness ==
    /\ hpc = "built"
    /\ Len(hin.data) = 2 /\ hin.data[1] # hin.data[2]
    /\ hin.dest_node # hin.src_node
    /\ Len(hout.buffer) = SizeofLLCHeader + SizeofSecureDataHeader + 2

\* C6 as stated: for every payload length L, protocol_size = L + header_size and
\* securedata_size = protocol_size - 4.
HeaderArithmeticAnyLength ==
    hpc = "built" =>
        /\ hout.header.protocol_size = Len(hin.data) + SizeofSecureDataHeader
        /\ hout.header.securedata_size = hout.header.protocol_size - 4

\* C6 as amended: the same for every payload length L with L + header_size <= 65535,
\* that is, while the sum fits the 16-bit field.
HeaderArithmetic ==
    (hpc = "built" /\ Len(hin.data) + SizeofSecureDataHeader <= 65535) =>
        /\ hout.header.protocol_size = Len(hin.data) + SizeofSecureDataHeader
        /\ hout.header.securedata_size = hout.header.protocol_size - 4

HeaderArithmeticWitness ==
    /\ hpc = "built"
    /\ Len(hin.data) + SizeofSecureDataHeader = 65535
    /\ hout.header.protocol_size = 65535
    /\ hout.header.securedata_size = 65531

-----------------------------------------------------------------------------
(* Key derivation: the session derives the key, the session layer and the   *)
(* key store go on changing, and the key is derived again.                  *)

Passphrases == {<<116, 101, 115, 116>>, <<116, 101, 115, 84>>}
CommunityIds == {4660, 4661}
InstanceIds == {1, 2}
NetworkIds == {52445, 56797}
SessionChannels == {1, 6}
KeySlots == {UDSDataCryptoAESKeySlot - 1, UDSDataCryptoAESKeySlot}

KeyInit ==
    /\ kpc = "start"
    /\ kenv \in [passphrase : Passphrases,
                 network_info : [host_mac_address : MacAddresses, wlan_comm_id : CommunityIds,
                                 id : InstanceIds, network_id : NetworkIds, channel : {1}],
                 keyslots : {[s \in KeySlots |-> CHOOSE k \in Keys : k[1] = 1]}]
    /\ kcall1 = NoDerive
    /\ kcall2 = NoDerive
    /\ CryptoIdle
    /\ hpc = "idle" /\ hin = HeaderIdle /\ hout = NoFrame

\* one call of GenerateDataCCMPKey, with what it was given
DeriveCall ==
    [passphrase |-> kenv.passphrase, network_info |-> kenv.network_info,
     master_key |-> kenv.keyslots[UDSDataCryptoAESKeySlot]]
        @@ GenerateDataCCMPKey(kenv.passphrase, kenv.network_info, kenv.keyslots)

DeriveFirst ==
    /\ kpc = "start"
    /\ kcall1' = DeriveCall
    /\ kpc' = "derived"
    /\ UNCHANGED <<kenv, kcall2>>

DeriveAgain ==
    /\ kpc = "derived"
    /\ kcall2' = DeriveCall
    /\ kpc' = "both"
    /\ UNCHANGED <<kenv, kcall1>>

ChangePassphrase ==
    /\ kpc = "derived"
    /\ \E p \in Passphrases \ {kenv.passphrase} : kenv' = [kenv EXCEPT !.passphrase = p]
    /\ UNCHANGED <<kpc, kcall1, kcall2>>

ChangeIdentity ==
    /\ kpc = "derived"
    /\ \/ \E m \in MacAddresses \ {kenv.network_info.host_mac_address} :
            kenv' = [kenv EXCEPT !.network_info.host_mac_address = m]
       \/ \E c \in CommunityIds \ {kenv.network_info.wlan_comm_id} :
            kenv' = [kenv EXCEPT !.network_info.wlan_comm_id = c]
       \/ \E i \in InstanceIds \ {kenv.network_info.id} :
            kenv' = [kenv EXCEPT !.network_info.id = i]
       \/ \E n \in NetworkIds \ {kenv.network_info.network_id} :
            kenv' = [kenv EXCEPT !.network_info.network_id = n]
    /\ UNCHANGED <<kpc, kcall1, kcall2>>

ChangeSessionMetadata ==
    /\ kpc = "derived"
    /\ \E c \in SessionChannels \ {kenv.network_info.channel} :
         kenv' = [kenv EXCEPT !.network_info.channel = c]
    /\ UNCHANGED <<kpc, kcall1, kcall2>>

ChangeKeySlot ==
    /\ kpc = "derived"
    /\ \E s \in KeySlots :
         \E k \in Keys \ {kenv.keyslots[s]} : kenv' = [kenv EXCEPT !.keyslots[s] = k]
    /\ UNCHANGED <<kpc, kcall1, kcall2>>

KeyNext ==
    \/ DeriveFirst /\ UNCHANGED <<cryptoVars, headerVars>>
    \/ DeriveAgain /\ UNCHANGED <<cryptoVars, headerVars>>
    \/ ChangePassphrase /\ UNCHANGED <<cryptoVars, headerVars>>
    \/ ChangeIdentity /\ UNCHANGED <<cryptoVars, headerVars>>
    \/ ChangeSessionMetadata /\ UNCHANGED <<cryptoVars, headerVars>>
    \/ ChangeKeySlot /\ UNCHANGED <<cryptoVars, headerVars>>

SpecKey == KeyInit /\ [][KeyNext]_vars

\* the inputs the key may depend on
SameKeyInputs(a, b) ==
    /\ a.passphrase = b.passphrase
    /\ a.network_info.host_mac_address = b.network_info.host_mac_address
    /\ a.network_info.wlan_comm_id = b.network_info.wlan_comm_id
    /\ a.network_info.id = b.network_info.id
    /\ a.network_info.network_id = b.network_info.network_id
    /\ a.master_key = b.master_key

\* C8: two derivations given the same passphrase, host MAC, wireless-community id,
\* instance id, network id and slot-0x2D key return the same 16-byte key, whatever else
\* differs in NetworkInfo and in the key store; the slot read is 0x2D; NetworkInfo is
\* left as it was.
KeyDeterminism ==
    kpc = "both" =>
        /\ kcall1.slot = 45 /\ kcall2.slot = 45
        /\ Len(kcall1.ccmp_key) = 16 /\ Len(kcall2.ccmp_key) = 16
        /\ SameKeyInputs(kcall1, kcall2) => kcall1.ccmp_key = kcall2.ccmp_key
        /\ kenv.network_info = kcall2.network_info

KeyDeterminismWitness ==
    /\ kpc = "both"
    /\ SameKeyInputs(kcall1, kcall2)
    /\ kcall1.network_info.channel # kcall2.network_info.channel
    /\ kenv.keyslots[UDSDataCryptoAESKeySlot - 1] # kenv.keyslots[UDSDataCryptoAESKeySlot]
    /\ kcall1.ccmp_key = kcall2.ccmp_key

=============================================================================
